---- MODULE Spec2Model ----
(***************************************************************************)
(* Model of ServiceStation.cpp: a counting Semaphore built on a mutex and  *)
(* a condition variable, the SharedQueue bounded buffer built from three   *)
(* semaphores (empty, full, mutex), the pump (consumer) and car (producer) *)
(* threads, and main, which starts the threads, joins the cars and polls   *)
(* for the drain condition.                                                *)
(*                                                                         *)
(* Every Semaphore method runs under the semaphore's own std::mutex, so    *)
(* each pass through acquire's predicate check, each release and each      *)
(* availablePermits is one atomic step.  A thread inside cv.wait is in the *)
(* semaphore's wait set; notify_one or a spurious wakeup takes it out, and *)
(* it then re-evaluates the predicate like a thread that has just arrived. *)
(***************************************************************************)
EXTENDS Integers, Sequences, FiniteSets

\* ---- bounds of the model ----
MaxQueueSize == 2   \* largest waiting-area size entered
MaxPumps == 2       \* largest pump count entered
MaxCars == 2        \* largest number of cars entered
MaxThreads == 4     \* largest number of pump and car threads together
MaxItems == 3       \* most cars the sequential producer of SpscSpec adds

VARIABLES
    queueSize,   \* main: int queueSize
    pumpCount,   \* main: int pumpCount
    maxCars,     \* main: int maxCars
    slots,       \* Semaphore::slots of empty, full, mutex, pumps
    waiters,     \* threads blocked in cv.wait of each semaphore
    queue,       \* SharedQueue::queue (std::queue<Car>), as car ids
    pc,          \* position of every pump and car thread
    item,        \* car thread: the Car passed to addCar (its carId)
    car,         \* pump thread: local `Car car` (0 before the first pop)
    mainPc,      \* position of main
    i,           \* main: pump start loop counter
    carId,       \* main: car start loop counter
    waiting,     \* main: local `waiting` of the drain loop
    freePumps,   \* main: local `freePumps` of the drain loop
    \* ---- history (observation) variables ----
    produced,    \* SpscSpec: cars the sequential producer passes to addCar, in order
    returned,    \* cars returned by removeCar, in return order
    nPush,       \* number of queue.push executed
    nPop,        \* number of queue.pop executed
    addStart,    \* car thread: its addCar call found the FIFO full and no pop has run since
    remStart,    \* pump thread: its removeCar call found the FIFO empty and no push has run since
    holding,     \* pump thread: bay permits acquired and not yet released
    owed,        \* semaphore: a release woke a waiter and no acquire has completed since
    acquired,    \* semaphore: number of acquire() calls that have returned
    released,    \* semaphore: number of release() calls that have returned
    serviced     \* car id: number of times a pump has finished servicing that car

inputs == <<queueSize, pumpCount, maxCars>>
sem == <<slots, waiters, owed, acquired, released>>
mainVars == <<mainPc, i, carId, waiting, freePumps>>
hist == <<produced, returned, nPush, nPop, addStart, remStart, holding, serviced>>
vars == <<inputs, sem, queue, pc, item, car, mainVars, hist>>

Sems == {"empty", "full", "mutex", "pumps"}
Pumps == {<<"pump", n>> : n \in 1..MaxPumps}
Cars == {<<"car", n>> : n \in 1..MaxCars}
Threads == Pumps \cup Cars
\* The values a Car's carId takes in the model (0: no car).
CarIds == 0..(IF MaxCars > MaxItems THEN MaxCars ELSE MaxItems)

\* ---------------------------------------------------------------------------
\* Semaphore
\* ---------------------------------------------------------------------------

\* Semaphore::Semaphore: throws std::invalid_argument on a negative count.
SemaphoreThrows(initialSlots) == initialSlots < 0

\* SharedQueue::SharedQueue: empty(capacity), full(0), mutex(1); the only
\* failure is the one a member Semaphore's constructor raises.
SharedQueueThrows(capacity) ==
    SemaphoreThrows(capacity) \/ SemaphoreThrows(0) \/ SemaphoreThrows(1)

\* Mutant: the wait predicate is off by one.
CanAcquireOffByOne(n) == n >= 0

\* The predicate of cv.wait in acquire.
CanAcquire(n) == n > 0

\* Mutant: release does not notify the condition variable.
NotifyNobody(ws) == {ws}

\* cv.notify_one: the wait sets that can result (one waiter leaves, if any).
NotifyOne(ws) == IF ws = {} THEN {ws} ELSE {ws \ {u} : u \in ws}

\* Semaphore::acquire by thread t on semaphore s, continuing at `next`:
\* one evaluation of the wait predicate under mtx.
Acquire(t, s, next) ==
    /\ t \notin waiters[s]
    /\ IF CanAcquire(slots[s])
       THEN /\ slots' = [slots EXCEPT ![s] = @ - 1]
            /\ pc' = [pc EXCEPT ![t] = next]
            /\ owed' = [owed EXCEPT ![s] = FALSE]
            /\ acquired' = [acquired EXCEPT ![s] = @ + 1]
            /\ UNCHANGED waiters
       ELSE /\ waiters' = [waiters EXCEPT ![s] = @ \cup {t}]
            /\ UNCHANGED <<slots, pc, owed, acquired>>
    /\ UNCHANGED released

\* Semaphore::release by thread t on semaphore s, continuing at `next`.
Release(t, s, next) ==
    /\ slots' = [slots EXCEPT ![s] = @ + 1]
    /\ \E ws \in NotifyOne(waiters[s]) : waiters' = [waiters EXCEPT ![s] = ws]
    /\ owed' = [owed EXCEPT ![s] = (waiters[s] # {}) \/ @]
    /\ released' = [released EXCEPT ![s] = @ + 1]
    /\ pc' = [pc EXCEPT ![t] = next]
    /\ UNCHANGED acquired

\* Semaphore::availablePermits.
availablePermits(s) == slots[s]

\* A spurious wakeup of cv.wait: the thread re-evaluates the predicate.
SpuriousWakeup(t, s) ==
    /\ t \in waiters[s]
    /\ waiters' = [waiters EXCEPT ![s] = @ \ {t}]
    /\ UNCHANGED <<inputs, slots, owed, acquired, released,
                   queue, pc, item, car, mainVars, hist>>

\* The process is alive: main has not returned (exit) nor been terminated.
Running == mainPc \notin {"finished", "terminated"}

\* ---------------------------------------------------------------------------
\* SharedQueue::addCar, by thread t with Car item[t]
\* ---------------------------------------------------------------------------

\* Mutant: addCar does not wait for an empty slot.
AddAcquireEmptySkipped(t) ==
    /\ Running /\ pc[t] = "add_empty"
    /\ pc' = [pc EXCEPT ![t] = "add_lock"]
    /\ UNCHANGED <<inputs, sem, queue, item, car, mainVars, hist>>

\* 1. empty.acquire()
AddAcquireEmpty(t) ==
    /\ Running /\ pc[t] = "add_empty"
    /\ Acquire(t, "empty", "add_lock")
    /\ UNCHANGED <<inputs, queue, item, car, mainVars, hist>>

\* Mutant: addCar enters its critical section without taking the mutex.
AddLockSkipped(t) ==
    /\ Running /\ pc[t] = "add_lock"
    /\ pc' = [pc EXCEPT ![t] = "add_push"]
    /\ UNCHANGED <<inputs, sem, queue, item, car, mainVars, hist>>

\* 2. mutex.acquire()
AddLock(t) ==
    /\ Running /\ pc[t] = "add_lock"
    /\ Acquire(t, "mutex", "add_push")
    /\ UNCHANGED <<inputs, queue, item, car, mainVars, hist>>

\* Mutant: the car is put at the front of the container.
AddPushFront(t) ==
    /\ Running /\ pc[t] = "add_push"
    /\ queue' = <<item[t]>> \o queue
    /\ nPush' = nPush + 1
    /\ remStart' = [u \in Pumps |-> FALSE]
    /\ pc' = [pc EXCEPT ![t] = "add_unlock"]
    /\ UNCHANGED <<inputs, sem, item, car, mainVars,
                   produced, returned, nPop, addStart, holding, serviced>>

\* critical section: queue.push(car) and the "entered the waiting queue" line
AddPush(t) ==
    /\ Running /\ pc[t] = "add_push"
    /\ queue' = Append(queue, item[t])
    /\ nPush' = nPush + 1
    /\ remStart' = [u \in Pumps |-> FALSE]
    /\ pc' = [pc EXCEPT ![t] = "add_unlock"]
    /\ UNCHANGED <<inputs, sem, item, car, mainVars,
                   produced, returned, nPop, addStart, holding, serviced>>

\* 3. mutex.release()
AddUnlock(t) ==
    /\ Running /\ pc[t] = "add_unlock"
    /\ Release(t, "mutex", "add_full")
    /\ UNCHANGED <<inputs, queue, item, car, mainVars, hist>>

\* Mutant: addCar returns without signalling the filled slot.
AddReleaseFullMissing(t) ==
    /\ Running /\ pc[t] = "add_full"
    /\ pc' = [pc EXCEPT ![t] = "done"]
    /\ UNCHANGED <<inputs, sem, queue, item, car, mainVars, hist>>

\* 4. full.release(), then addCar returns
AddReleaseFull(t) ==
    /\ Running /\ pc[t] = "add_full"
    /\ Release(t, "full", "done")
    /\ UNCHANGED <<inputs, queue, item, car, mainVars, hist>>

addCar(t) ==
    \/ AddAcquireEmpty(t)
    \/ AddLock(t)
    \/ AddPush(t)
    \/ AddUnlock(t)
    \/ AddReleaseFull(t)

\* ---------------------------------------------------------------------------
\* SharedQueue::removeCar, by pump thread t
\* ---------------------------------------------------------------------------

\* Mutant: removeCar does not wait for a filled slot.
RemAcquireFullSkipped(t) ==
    /\ Running /\ pc[t] = "rem_full"
    /\ pc' = [pc EXCEPT ![t] = "rem_lock"]
    /\ UNCHANGED <<inputs, sem, queue, item, car, mainVars, hist>>

\* 1. full.acquire()
RemAcquireFull(t) ==
    /\ Running /\ pc[t] = "rem_full"
    /\ Acquire(t, "full", "rem_lock")
    /\ UNCHANGED <<inputs, queue, item, car, mainVars, hist>>

\* 2. mutex.acquire()
RemLock(t) ==
    /\ Running /\ pc[t] = "rem_lock"
    /\ Acquire(t, "mutex", "rem_pop")
    /\ UNCHANGED <<inputs, queue, item, car, mainVars, hist>>

\* Mutant: the front car is read but not popped.
RemPopFrontOnly(t) ==
    /\ Running /\ pc[t] = "rem_pop"
    /\ queue # << >>
    /\ car' = [car EXCEPT ![t] = Head(queue)]
    /\ nPop' = nPop + 1
    /\ addStart' = [u \in Cars |-> FALSE]
    /\ pc' = [pc EXCEPT ![t] = "rem_unlock"]
    /\ UNCHANGED <<inputs, sem, queue, item, mainVars,
                   produced, returned, nPush, remStart, holding, serviced>>

\* critical section: Car car = queue.front(); queue.pop(); and the "taken
\* from queue" line.  front() and pop() of an empty std::queue are undefined:
\* the car read is then any value and the container is left empty.
RemPop(t) ==
    /\ Running /\ pc[t] = "rem_pop"
    /\ IF queue # << >>
       THEN /\ car' = [car EXCEPT ![t] = Head(queue)]
            /\ queue' = Tail(queue)
       ELSE /\ \E g \in 0..MaxCars : car' = [car EXCEPT ![t] = g]
            /\ queue' = << >>
    /\ nPop' = nPop + 1
    /\ addStart' = [u \in Cars |-> FALSE]
    /\ pc' = [pc EXCEPT ![t] = "rem_unlock"]
    /\ UNCHANGED <<inputs, sem, item, mainVars,
                   produced, returned, nPush, remStart, holding, serviced>>

\* 3. mutex.release()
RemUnlock(t) ==
    /\ Running /\ pc[t] = "rem_unlock"
    /\ Release(t, "mutex", "rem_empty")
    /\ UNCHANGED <<inputs, queue, item, car, mainVars, hist>>

\* Mutant: removeCar gives its permit back to full instead of empty.
RemReleaseFullInstead(t) ==
    /\ Running /\ pc[t] = "rem_empty"
    /\ Release(t, "full", "bay_acquire")
    /\ returned' = Append(returned, car[t])
    /\ UNCHANGED <<inputs, queue, item, car, mainVars,
                   produced, nPush, nPop, addStart, remStart, holding, serviced>>

\* 4. empty.release(); return car
RemReleaseEmpty(t) ==
    /\ Running /\ pc[t] = "rem_empty"
    /\ Release(t, "empty", "bay_acquire")
    /\ returned' = Append(returned, car[t])
    /\ UNCHANGED <<inputs, queue, item, car, mainVars,
                   produced, nPush, nPop, addStart, remStart, holding, serviced>>

removeCar(t) ==
    \/ RemAcquireFull(t)
    \/ RemLock(t)
    \/ RemPop(t)
    \/ RemUnlock(t)
    \/ RemReleaseEmpty(t)

\* SharedQueue::getWaitingCarCount
getWaitingCarCount == availablePermits("full")

\* ---------------------------------------------------------------------------
\* pump_routine, by pump thread t
\* ---------------------------------------------------------------------------

\* while (true) { Car car = queue.removeCar(pumpId): the call is made.
PumpCallRemove(t) ==
    /\ Running /\ pc[t] = "remove_call"
    /\ pc' = [pc EXCEPT ![t] = "rem_full"]
    /\ remStart' = [remStart EXCEPT ![t] = (Len(queue) = 0)]
    /\ UNCHANGED <<inputs, sem, queue, item, car, mainVars,
                   produced, returned, nPush, nPop, addStart, holding, serviced>>

\* Mutant: the pump starts service without acquiring a bay.
PumpAcquireBaySkipped(t) ==
    /\ Running /\ pc[t] = "bay_acquire"
    /\ pc' = [pc EXCEPT ![t] = "service"]
    /\ UNCHANGED <<inputs, sem, queue, item, car, mainVars, hist>>

\* pumps.acquire()
PumpAcquireBay(t) ==
    /\ Running /\ pc[t] = "bay_acquire"
    /\ Acquire(t, "pumps", "service")
    /\ holding' = [holding EXCEPT ![t] = IF CanAcquire(slots["pumps"]) THEN @ + 1 ELSE @]
    /\ UNCHANGED <<inputs, queue, item, car, mainVars,
                   produced, returned, nPush, nPop, addStart, remStart, serviced>>

\* "begins service", sleep_for, "finishes service", "is now free"
PumpService(t) ==
    /\ Running /\ pc[t] = "service"
    /\ pc' = [pc EXCEPT ![t] = "bay_release"]
    /\ serviced' = [serviced EXCEPT ![car[t]] = @ + 1]
    /\ UNCHANGED <<inputs, sem, queue, item, car, mainVars,
                   produced, returned, nPush, nPop, addStart, remStart, holding>>

\* Mutant: the pump starts its loop over without releasing its bay.
PumpReleaseBayMissing(t) ==
    /\ Running /\ pc[t] = "bay_release"
    /\ pc' = [pc EXCEPT ![t] = "remove_call"]
    /\ UNCHANGED <<inputs, sem, queue, item, car, mainVars, hist>>

\* pumps.release(), then the loop starts over
PumpReleaseBay(t) ==
    /\ Running /\ pc[t] = "bay_release"
    /\ Release(t, "pumps", "remove_call")
    /\ holding' = [holding EXCEPT ![t] = @ - 1]
    /\ UNCHANGED <<inputs, queue, item, car, mainVars,
                   produced, returned, nPush, nPop, addStart, remStart, serviced>>

\* An exception raised by the service step (the string building of its
\* safe_print calls can throw std::bad_alloc) unwinds out of the while loop
\* to catch (...), which prints "interrupted"; pump_routine then returns.
PumpServiceThrows(t) ==
    /\ Running /\ pc[t] = "service"
    /\ pc' = [pc EXCEPT ![t] = "exited"]
    /\ UNCHANGED <<inputs, sem, queue, item, car, mainVars, hist>>

pump_routine(t) ==
    \/ PumpCallRemove(t)
    \/ removeCar(t)
    \/ PumpAcquireBay(t)
    \/ PumpService(t)
    \/ PumpReleaseBay(t)

\* ---------------------------------------------------------------------------
\* car_routine, by car thread t
\* ---------------------------------------------------------------------------

\* "arrived", then the call queue.addCar(Car(name, id)) is made
CarArrive(t) ==
    /\ Running /\ pc[t] = "arrived"
    /\ pc' = [pc EXCEPT ![t] = "add_empty"]
    /\ addStart' = [addStart EXCEPT ![t] = (Len(queue) = queueSize)]
    /\ UNCHANGED <<inputs, sem, queue, item, car, mainVars,
                   produced, returned, nPush, nPop, remStart, holding, serviced>>

car_routine(t) ==
    \/ CarArrive(t)
    \/ addCar(t)

\* ---------------------------------------------------------------------------
\* main
\* ---------------------------------------------------------------------------

\* Semaphore pumps(pumpCount); SharedQueue queue(queueSize);
\* An exception of either constructor is uncaught: std::terminate.
MainConstruct ==
    /\ mainPc = "construct"
    /\ IF SemaphoreThrows(pumpCount) \/ SharedQueueThrows(queueSize)
       THEN /\ mainPc' = "terminated"
            /\ UNCHANGED slots
       ELSE /\ mainPc' = "start_pumps"
            /\ slots' = [empty |-> queueSize, full |-> 0, mutex |-> 1,
                         pumps |-> pumpCount]
    /\ UNCHANGED <<inputs, waiters, owed, acquired, released, queue, pc, item, car,
                   i, carId, waiting, freePumps, hist>>

\* for (int i = 0; i < pumpCount; i++) pumpThreads.emplace_back(pump_routine, i + 1, ...)
MainStartPump ==
    /\ mainPc = "start_pumps"
    /\ IF i < pumpCount
       THEN /\ pc' = [pc EXCEPT ![<<"pump", i + 1>>] = "remove_call"]
            /\ i' = i + 1
            /\ UNCHANGED <<mainPc, carId>>
       ELSE /\ mainPc' = "start_cars"
            /\ carId' = 1
            /\ UNCHANGED <<pc, i>>
    /\ UNCHANGED <<inputs, sem, queue, item, car, waiting, freePumps, hist>>

\* for (int carId = 1; carId <= maxCars; carId++) { carThreads.emplace_back(
\*     car_routine, name, carId, ...); sleep_for(...); }
MainStartCar ==
    /\ mainPc = "start_cars"
    /\ IF carId <= maxCars
       THEN /\ pc' = [pc EXCEPT ![<<"car", carId>>] = "arrived"]
            /\ item' = [item EXCEPT ![<<"car", carId>>] = carId]
            /\ carId' = carId + 1
            /\ UNCHANGED mainPc
       ELSE /\ mainPc' = "join"
            /\ UNCHANGED <<pc, item, carId>>
    /\ UNCHANGED <<inputs, sem, queue, car, i, waiting, freePumps, hist>>

\* Mutant: main goes on to the drain loop without joining the car threads.
MainJoinCarsSkipped ==
    /\ mainPc = "join"
    /\ mainPc' = "sample_waiting"
    /\ UNCHANGED <<inputs, sem, queue, pc, item, car,
                   i, carId, waiting, freePumps, hist>>

\* for (auto& t : carThreads) if (t.joinable()) t.join();
MainJoinCars ==
    /\ mainPc = "join"
    /\ \A n \in 1..maxCars : pc[<<"car", n>>] = "done"
    /\ mainPc' = "sample_waiting"
    /\ UNCHANGED <<inputs, sem, queue, pc, item, car,
                   i, carId, waiting, freePumps, hist>>

\* int waiting = queue.getWaitingCarCount();
MainSampleWaiting ==
    /\ mainPc = "sample_waiting"
    /\ waiting' = getWaitingCarCount
    /\ mainPc' = "sample_pumps"
    /\ UNCHANGED <<inputs, sem, queue, pc, item, car, i, carId, freePumps, hist>>

\* Whether the drain loop breaks on the two samples.
Drained(w, f) == w = 0 /\ f = pumpCount

\* int freePumps = pumps.availablePermits();
\* if (waiting == 0 && freePumps == pumpCount) break; else sleep and poll again
MainSampleFreePumps ==
    /\ mainPc = "sample_pumps"
    /\ freePumps' = availablePermits("pumps")
    /\ mainPc' = IF Drained(waiting, availablePermits("pumps"))
                 THEN "shutdown" ELSE "sample_waiting"
    /\ UNCHANGED <<inputs, sem, queue, pc, item, car, i, carId, waiting, hist>>

\* "All cars serviced", detach the pump threads, "ServiceStation finished",
\* return 0: the process exits and the detached threads end with it.
MainShutdown ==
    /\ mainPc = "shutdown"
    /\ mainPc' = "finished"
    /\ UNCHANGED <<inputs, sem, queue, pc, item, car,
                   i, carId, waiting, freePumps, hist>>

main ==
    \/ MainConstruct
    \/ MainStartPump
    \/ MainStartCar
    \/ MainJoinCars
    \/ MainSampleWaiting
    \/ MainSampleFreePumps
    \/ MainShutdown

\* ---------------------------------------------------------------------------
\* The program
\* ---------------------------------------------------------------------------

\* The state before the constructors run.  The input loop leaves queueSize in
\* 1..10; pumpCount and maxCars are taken as entered.
InitRest ==
    /\ slots = [s \in Sems |-> 0]
    /\ waiters = [s \in Sems |-> {}]
    /\ owed = [s \in Sems |-> FALSE]
    /\ acquired = [s \in Sems |-> 0]
    /\ released = [s \in Sems |-> 0]
    /\ queue = << >>
    /\ pc = [t \in Threads |-> "unstarted"]
    /\ item = [t \in Cars |-> 0]
    /\ car = [t \in Pumps |-> 0]
    /\ mainPc = "construct"
    /\ i = 0
    /\ carId = 0
    /\ waiting = 0
    /\ freePumps = 0
    /\ produced = << >>
    /\ returned = << >>
    /\ nPush = 0
    /\ nPop = 0
    /\ addStart = [t \in Cars |-> FALSE]
    /\ remStart = [t \in Pumps |-> FALSE]
    /\ holding = [t \in Pumps |-> 0]
    /\ serviced = [c \in CarIds |-> 0]

Init ==
    /\ queueSize \in 1..MaxQueueSize
    /\ pumpCount \in -1..MaxPumps
    /\ maxCars \in 0..MaxCars
    /\ pumpCount + maxCars <= MaxThreads
    /\ InitRest

Wakeup == \E t \in Threads, s \in Sems : Running /\ SpuriousWakeup(t, s)

Next ==
    \/ main
    \/ \E t \in Pumps : pump_routine(t)
    \/ \E t \in Cars : car_routine(t)
    \/ Wakeup

Spec == Init /\ [][Next]_vars

\* ---------------------------------------------------------------------------
\* The program with an exception raised in the service step
\* ---------------------------------------------------------------------------

Fault == \E t \in Pumps : PumpServiceThrows(t)

FaultNext ==
    \/ Next
    \/ Fault

FaultSpec == Init /\ [][FaultNext]_vars

\* ---------------------------------------------------------------------------
\* The classes built directly from their constructors' parameters (without
\* main's input loop in front of them)
\* ---------------------------------------------------------------------------

CoreInit ==
    /\ queueSize \in -1..MaxQueueSize
    /\ pumpCount \in -1..MaxPumps
    /\ maxCars \in 0..MaxCars
    /\ pumpCount + maxCars <= MaxThreads
    /\ InitRest

CoreSpec == CoreInit /\ [][Next]_vars

\* ---------------------------------------------------------------------------
\* The program, with at least one pump, under fair scheduling: every thread
\* that can take a step eventually takes one.  Spurious wakeups may happen
\* but need not.
\* ---------------------------------------------------------------------------

MaxFairThreads == 3   \* largest number of pump and car threads in FairSpec

FairInit ==
    /\ queueSize \in 1..MaxQueueSize
    /\ pumpCount \in 1..MaxPumps
    /\ maxCars \in 0..MaxCars
    /\ pumpCount + maxCars <= MaxFairThreads
    /\ InitRest

Fairness ==
    /\ WF_vars(main)
    /\ \A t \in Pumps : WF_vars(pump_routine(t))
    /\ \A t \in Cars : WF_vars(car_routine(t))

FairSpec == FairInit /\ [][Next]_vars /\ Fairness

\* ---------------------------------------------------------------------------
\* One producer thread that calls addCar for cars 1..maxCars one after the
\* other, and one pump thread, on a queue of any capacity
\* ---------------------------------------------------------------------------

Producer == <<"car", 1>>
Consumer == <<"pump", 1>>

\* The producer's loop: after addCar has returned, the next car is passed.
ProducerNext ==
    /\ pc[Producer] = "done"
    /\ item[Producer] < maxCars
    /\ item' = [item EXCEPT ![Producer] = @ + 1]
    /\ produced' = Append(produced, item[Producer] + 1)
    /\ pc' = [pc EXCEPT ![Producer] = "arrived"]
    /\ UNCHANGED <<inputs, sem, queue, car, mainVars,
                   returned, nPush, nPop, addStart, remStart, holding, serviced>>

SpscInit ==
    /\ queueSize \in 1..MaxQueueSize
    /\ pumpCount = 1
    /\ maxCars \in 1..MaxItems
    /\ slots = [empty |-> queueSize, full |-> 0, mutex |-> 1, pumps |-> 1]
    /\ waiters = [s \in Sems |-> {}]
    /\ owed = [s \in Sems |-> FALSE]
    /\ acquired = [s \in Sems |-> 0]
    /\ released = [s \in Sems |-> 0]
    /\ queue = << >>
    /\ pc = [t \in Threads |->
               IF t = Producer THEN "arrived"
               ELSE IF t = Consumer THEN "remove_call" ELSE "unstarted"]
    /\ item = [t \in Cars |-> IF t = Producer THEN 1 ELSE 0]
    /\ car = [t \in Pumps |-> 0]
    /\ mainPc = "join"
    /\ i = 1
    /\ carId = 1
    /\ waiting = 0
    /\ freePumps = 0
    /\ produced = <<1>>
    /\ returned = << >>
    /\ nPush = 0
    /\ nPop = 0
    /\ addStart = [t \in Cars |-> FALSE]
    /\ remStart = [t \in Pumps |-> FALSE]
    /\ holding = [t \in Pumps |-> 0]
    /\ serviced = [c \in CarIds |-> 0]

SpscNext ==
    \/ car_routine(Producer)
    \/ ProducerNext
    \/ pump_routine(Consumer)
    \/ Wakeup

SpscSpec == SpscInit /\ [][SpscNext]_vars

\* ===========================================================================
\* Properties
\* ===========================================================================

\* Both constructors of main have returned.
Constructed == mainPc \notin {"construct", "terminated"}

\* ---- C1 ----
\* C1: Capacity invariant.  In every reachable state the FIFO holds between 0
\* and queueSize cars, and its length is the number of pushes minus the
\* number of pops (no pop ever ran on an empty container).
CapacityInvariant ==
    /\ Len(queue) >= 0
    /\ Len(queue) <= queueSize
    /\ nPush - nPop = Len(queue)

\* The queue is full and a car is blocked waiting for an empty slot.
CapacityWitness ==
    /\ Constructed
    /\ Len(queue) = queueSize
    /\ waiters["empty"] # {}

\* ---- C2 ----
\* Thread t is between mutex.acquire() returning and mutex.release().
InCritical(t) == pc[t] \in {"add_push", "add_unlock", "rem_pop", "rem_unlock"}

\* Thread t is inside addCar after empty.acquire() returned and before
\* full.release(), or inside removeCar after full.acquire() returned and
\* before empty.release(): it holds a slot permit of neither semaphore.
HoldsSlot(t) ==
    pc[t] \in {"add_lock", "add_push", "add_unlock", "add_full",
               "rem_lock", "rem_pop", "rem_unlock", "rem_empty"}

\* C2 as stated: whenever no thread is between mutex.acquire() and
\* mutex.release(), empty + full = capacity.
SlotConservationOutsideMutex ==
    (Constructed /\ \A t \in Threads : ~InCritical(t))
        => availablePermits("empty") + availablePermits("full") = queueSize

\* C2, amended: whenever no thread is between its slot acquire (empty in
\* addCar, full in removeCar) and its slot release (full in addCar, empty in
\* removeCar), empty + full = capacity.
SlotConservation ==
    (Constructed /\ \A t \in Threads : ~HoldsSlot(t))
        => availablePermits("empty") + availablePermits("full") = queueSize

\* No thread is mid-operation, a car is buffered and a car has been removed.
SlotConservationWitness ==
    /\ Constructed
    /\ \A t \in Threads : ~HoldsSlot(t)
    /\ availablePermits("full") >= 1
    /\ nPop >= 1

\* ---- C3 ----
IsPrefix(a, b) == Len(a) <= Len(b) /\ \A k \in 1..Len(a) : a[k] = b[k]

\* C3: FIFO order.  With one producer calling addCar sequentially and one
\* consumer, the cars returned by removeCar are, in order, a prefix of the
\* cars passed to addCar.
FifoOrder == IsPrefix(returned, produced)

\* Three cars went through a queue of capacity 2 or more, in order.
FifoWitness ==
    /\ Len(returned) >= 3
    /\ returned = produced
    /\ queueSize >= 2
    /\ nPush = 3

\* ---- C4 ----
\* Car threads whose addCar has pushed, and those whose addCar has returned.
PushedCars == {t \in Cars : pc[t] \in {"add_unlock", "add_full", "done"}}
DoneCars == {t \in Cars : pc[t] = "done"}
Range(f) == {f[k] : k \in DOMAIN f}

\* C4: No lost or duplicated cars.  No car is returned twice, every car
\* returned was pushed by some addCar, and once every addCar call made has
\* returned and as many removeCar calls have returned, the cars returned are
\* exactly the cars passed.
NoLostOrDuplicated ==
    /\ \A a, b \in 1..Len(returned) : a # b => returned[a] # returned[b]
    /\ \A a \in 1..Len(returned) : returned[a] \in {item[t] : t \in PushedCars}
    /\ ( /\ \A t \in Cars : pc[t] \in {"unstarted", "arrived", "done"}
         /\ Len(returned) = Cardinality(DoneCars) )
        => Range(returned) = {item[t] : t \in DoneCars}

\* Two cars were added by two threads and removed by two different pumps.
NoLostWitness ==
    /\ Cardinality(DoneCars) = 2
    /\ \A t \in Cars : pc[t] \in {"unstarted", "done"}
    /\ Len(returned) = 2
    /\ car[<<"pump", 1>>] # 0
    /\ car[<<"pump", 2>>] # 0

\* ---- C5 ----
\* C5: Blocking correctness.  A car thread whose addCar call found the FIFO
\* full has not pushed as long as no pop has run since the call; a pump
\* thread whose removeCar call found the FIFO empty has not popped as long as
\* no push has run since the call.
BlockingCorrectness ==
    /\ \A t \in Cars :
          addStart[t] => pc[t] \in {"add_empty", "add_lock", "add_push"}
    /\ \A t \in Pumps :
          remStart[t] => pc[t] \in {"rem_full", "rem_lock", "rem_pop"}

\* A pump is blocked in full.acquire() of a removeCar that found the FIFO
\* empty, while a car blocked on a full queue has been let in earlier.
BlockingWitness ==
    /\ \E t \in Pumps : remStart[t] /\ t \in waiters["full"]
    /\ nPush > queueSize

\* ---- C6 ----
\* The permits each semaphore is constructed with.
InitialSlots(s) ==
    CASE s = "empty" -> queueSize
      [] s = "full" -> 0
      [] s = "mutex" -> 1
      [] s = "pumps" -> pumpCount

\* C6: Semaphore permit invariant.  slots is never negative, and once the
\* semaphores are built slots is the initial count plus the number of
\* release() calls returned minus the number of acquire() calls returned:
\* each acquire took exactly 1 from a value > 0, each release added exactly 1.
PermitInvariant ==
    \A s \in Sems :
        /\ slots[s] >= 0
        /\ Constructed => slots[s] = InitialSlots(s) + released[s] - acquired[s]

\* A pump is blocked on full at 0 permits after an earlier acquire of full
\* succeeded.
PermitWitness ==
    /\ slots["full"] = 0
    /\ waiters["full"] # {}
    /\ acquired["full"] >= 1
    /\ released["full"] >= 1

\* ---- C7 ----
\* Thread t sits in the wait set of s although s has a permit.
StuckWaiter(t, s) == Running /\ t \in waiters[s] /\ slots[s] > 0

\* A release() of s found a blocked thread and no acquire() of s has returned
\* since, in a process that is still running.
Owing(s) == Running /\ owed[s]

\* C7: No lost wakeup.  Under fair scheduling, while the process runs, no
\* thread stays in a semaphore's wait set forever while that semaphore keeps
\* a permit, and every release() that found a blocked thread is followed by
\* some acquire() of that semaphore returning (Owing(s) ~> ~Owing(s), which
\* is []<>~Owing(s)).
NoLostWakeup ==
    /\ \A s \in Sems : \A t \in Threads : []<>(~StuckWaiter(t, s))
    /\ \A s \in Sems : []<>(~Owing(s))

\* A release of empty has just woken a car that was blocked on a full queue.
NoLostWakeupWitness ==
    /\ owed["empty"]
    /\ slots["empty"] = 1
    /\ Len(queue) < queueSize

\* ---- C8 ----
\* C8: Fail-fast configuration.  A capacity below 1 or a negative pump count
\* never gets past construction, and when construction has failed no pump or
\* car thread has been started.
FailFast ==
    /\ (queueSize < 1 \/ pumpCount < 0) => mainPc \in {"construct", "terminated"}
    /\ mainPc = "terminated" => \A t \in Threads : pc[t] = "unstarted"

\* ---- C9 ----
\* Pumps between pumps.acquire() returning and pumps.release(): those that
\* hold a bay permit.  A pump whose service step threw stays among them, as
\* it never reaches pumps.release().
InService == {t \in Pumps : holding[t] > 0}

\* C9: Bay exclusivity.  The number of pumps in service is at most pumpCount
\* and equals pumpCount minus the free bay permits, which never exceed
\* pumpCount; no pump holds more than one permit.
BayExclusivity ==
    Constructed =>
        /\ Cardinality(InService) <= pumpCount
        /\ Cardinality(InService) = pumpCount - availablePermits("pumps")
        /\ availablePermits("pumps") <= pumpCount
        /\ \A t \in Pumps : holding[t] \in {0, 1}

\* Two pumps are in service at once and no bay is free.
BayExclusivityWitness ==
    /\ pumpCount = 2
    /\ Cardinality(InService) = 2
    /\ \A t \in InService : pc[t] = "service"
    /\ availablePermits("pumps") = 0

\* ---- C10 ----
\* C10: Bay release on every exit path.  A pump that has left pump_routine
\* holds no bay permit.
BayReleasedOnExit == \A t \in Pumps : pc[t] = "exited" => holding[t] = 0

\* ---- C11 ----
\* The cars main has generated: carId 1..maxCars.
Generated == 1..maxCars

\* Main has left the polling loop of the drain detection.
LeftDrainLoop == mainPc \in {"shutdown", "finished"}

\* Pumps that have taken a car in removeCar and have not yet released the
\* bay they service it in.
HoldsCar(t) ==
    pc[t] \in {"rem_lock", "rem_pop", "rem_unlock", "rem_empty",
               "bay_acquire", "service", "bay_release"}

\* C11: Drain detection is sound.  Whenever main has left its polling loop,
\* every generated car has finished service exactly once and no pump still
\* holds a car it has dequeued (or is dequeuing) without having released
\* its bay.
DrainSound ==
    LeftDrainLoop =>
        /\ \A c \in Generated : serviced[c] = 1
        /\ \A t \in Pumps : ~HoldsCar(t)

\* ---- C12 ----
\* Every generated car's thread has returned from addCar.
AllAdded == \A n \in Generated : pc[<<"car", n>>] = "done"

\* Every generated car has been taken out of the queue by a pump.
AllDequeued == nPop >= maxCars

\* Every generated car has passed the "finishes service" step.
AllServiced == \A c \in Generated : serviced[c] >= 1

\* C12: Eventual drain and termination.  With at least one pump and fair
\* scheduling of every thread, every generated car eventually completes
\* addCar, is eventually dequeued and eventually finishes service, and main
\* eventually leaves the drain loop.
EventualDrain ==
    /\ <>AllAdded
    /\ <>AllDequeued
    /\ <>AllServiced
    /\ <>LeftDrainLoop

\* ---- C13 ----
\* The addCar of the car with carId n has executed queue.push.
Pushed(n) == <<"car", n>> \in PushedCars

\* C13: Arrival order is preserved into the queue.  Cars are pushed in
\* strictly increasing carId order (car k+1 has pushed only if car k has),
\* and with a single pump the cars come out of removeCar in strictly
\* increasing carId order.
ArrivalOrder ==
    /\ \A n \in 2..maxCars : Pushed(n) => Pushed(n - 1)
    /\ pumpCount = 1 =>
          \A a, b \in 1..Len(returned) : a < b => returned[a] < returned[b]

\* ---- C14 ----
\* C14: removeCar never reads an empty FIFO.  Whenever a pump is at
\* queue.front()/queue.pop() inside removeCar's critical section, the FIFO
\* holds at least one car, and the car at its front was pushed by an addCar.
NeverReadsEmpty ==
    \A t \in Pumps :
        pc[t] = "rem_pop" =>
            /\ Len(queue) >= 1
            /\ Head(queue) \in {item[c] : c \in PushedCars}

\* A pump is at front()/pop() with exactly one car buffered while another
\* pump is blocked in full.acquire().
NeverReadsEmptyWitness ==
    \E t, u \in Pumps :
        /\ pc[t] = "rem_pop"
        /\ Len(queue) = 1
        /\ u \in waiters["full"]

\* ---- C15 ----
\* Both halves of main's drain test hold of the semaphores themselves.
DrainCondition ==
    /\ availablePermits("full") = 0
    /\ availablePermits("pumps") = pumpCount

\* Main has joined every car thread: it is in or past the drain loop.
Joined == mainPc \in {"sample_waiting", "sample_pumps", "shutdown", "finished"}

\* C15: The drain condition is stable.  Once every car thread has been
\* joined, a step taken from a state in which full has no permit and pumps
\* has all pumpCount permits leads to a state in which both still hold.
DrainStable == [][(Joined /\ DrainCondition) => DrainCondition']_vars

\* ---- C16 ----
\* Threads between mutex.acquire() returning and mutex.release().
InMutex == {t \in Threads : InCritical(t)}

\* C16: Mutual exclusion on the FIFO.  At most one thread is inside the
\* critical section of addCar or removeCar, and the mutex semaphore's permit
\* count is 0 or 1: 0 exactly when a thread is inside.
MutualExclusion ==
    Constructed =>
        /\ Cardinality(InMutex) <= 1
        /\ availablePermits("mutex") \in {0, 1}
        /\ availablePermits("mutex") = 1 - Cardinality(InMutex)

\* A car is at queue.push while a pump is blocked in mutex.acquire().
MutualExclusionWitness ==
    \E t \in Cars, p \in Pumps :
        /\ pc[t] = "add_push"
        /\ p \in waiters["mutex"]
        /\ availablePermits("mutex") = 0

\* ---- C17 ----
\* No thread can take a step: neither main nor any pump or car thread has
\* a step of its code enabled (a thread in a wait set has none until it is
\* notified; a spurious wakeup only makes it wait again).
Quiescent ==
    ~ENABLED (main \/ (\E t \in Pumps : pump_routine(t))
                   \/ (\E t \in Cars : car_routine(t)))

\* Pump t is idle at the head of its loop: calling removeCar or in its
\* full.acquire(), holding no car and no bay.
IdleAtQueue(t) == pc[t] \in {"remove_call", "rem_full"} /\ holding[t] = 0

\* C17: Deadlock freedom of the queue protocol.  No thread is blocked on
\* empty or full while it holds the queue mutex, and with at least one pump
\* the only states in which no thread can take a step are those where main
\* has finished, every generated car has finished service, the queue is
\* empty and every pump is at full.acquire().
DeadlockFreedom ==
    /\ \A t \in waiters["empty"] \cup waiters["full"] : t \notin InMutex
    /\ (Constructed /\ pumpCount >= 1 /\ Quiescent) =>
          /\ mainPc = "finished"
          /\ AllServiced
          /\ queue = <<>>
          /\ \A n \in 1..pumpCount : IdleAtQueue(<<"pump", n>>)

\* ---- C18 ----
\* C18: Arrivals complete before drain monitoring.  Whenever main is at or
\* past its first drain sample, every generated car's thread has returned
\* from addCar, and the pushes and the producers' releases of full number
\* exactly maxCars: none of either happens once the sampling has begun.
ArrivalsBeforeDrain ==
    Joined =>
        /\ AllAdded
        /\ nPush = maxCars
        /\ released["full"] = maxCars

\* Main samples the pump permits after two cars arrived, while a pump is
\* still inside removeCar.
ArrivalsBeforeDrainWitness ==
    /\ mainPc = "sample_pumps"
    /\ maxCars = 2
    /\ \E t \in Pumps : pc[t] = "rem_pop"

\* ---- C19 ----
\* Producers that have pushed but not yet released full.
PushedNotReleased == {t \in Cars : pc[t] \in {"add_unlock", "add_full"}}

\* Consumers that have acquired full but not yet popped.
AcquiredNotPopped == {t \in Pumps : pc[t] \in {"rem_lock", "rem_pop"}}

\* Producers that have acquired empty but not yet pushed.
AcquiredNotPushed == {t \in Cars : pc[t] \in {"add_lock", "add_push"}}

\* Consumers that have popped but not yet released empty.
PoppedNotReleased == {t \in Pumps : pc[t] \in {"rem_unlock", "rem_empty"}}

\* C19: Exact slot accounting.  In every state, also while threads are
\* inside addCar/removeCar, full's permits <= FIFO length <= capacity minus
\* empty's permits; the FIFO length is full's permits plus the producers
\* that pushed without having released full plus the consumers that acquired
\* full without having popped, and the free room is empty's permits plus the
\* producers that acquired empty without having pushed plus the consumers
\* that popped without having released empty.  So getWaitingCarCount()
\* never exceeds the number of buffered cars.
SlotAccounting ==
    Constructed =>
        /\ availablePermits("full") <= Len(queue)
        /\ Len(queue) <= queueSize - availablePermits("empty")
        /\ Len(queue) = availablePermits("full")
                        + Cardinality(PushedNotReleased)
                        + Cardinality(AcquiredNotPopped)
        /\ queueSize - Len(queue) = availablePermits("empty")
                                    + Cardinality(AcquiredNotPushed)
                                    + Cardinality(PoppedNotReleased)
        /\ getWaitingCarCount <= Len(queue)

\* A car has pushed without having released full while a pump has popped
\* without having released empty: both counts lag behind the FIFO.
SlotAccountingWitness ==
    /\ PushedNotReleased # {}
    /\ PoppedNotReleased # {}
    /\ availablePermits("full") < Len(queue)
    /\ Len(queue) < queueSize - availablePermits("empty")

\* ---- C20 ----
\* C20: A worker never waits for a bay.  Whenever a pump is about to call
\* pumps.acquire(), the pool has at least one permit, and no pump is ever
\* in the wait set of pumps.
NeverWaitsForBay ==
    Constructed =>
        /\ \A t \in Pumps : pc[t] = "bay_acquire" => availablePermits("pumps") >= 1
        /\ waiters["pumps"] = {}

\* A pump is about to take the last free bay while the other pump is in
\* service.
NeverWaitsForBayWitness ==
    \E t, u \in Pumps :
        /\ pc[t] = "bay_acquire"
        /\ pc[u] = "service"
        /\ availablePermits("pumps") = 1

====
